---- MODULE Spec2Model ----
(***************************************************************************)
(* Model of the Aethelgard shared data contracts                           *)
(* (src/contracts/shared_models.py).                                       *)
(*                                                                         *)
(* The models are pydantic v2 BaseModel classes.  Constructing one         *)
(* validates the fields in the order the class declares them; a field      *)
(* validator receives info.data, which holds exactly the fields declared   *)
(* BEFORE the field under validation that passed their own validation.     *)
(* A field validator is not run for a field that takes its default         *)
(* (validate_default is off).  Construction collects every field error     *)
(* and raises one ValidationError when the set is not empty.               *)
(*                                                                         *)
(* Floats of the source are modelled as integers in hundredths             *)
(* (coverage_score 0.65 is 65, citation_density 1.0 is 100).               *)
(***************************************************************************)
EXTENDS Integers, Sequences, FiniteSets, TLC

VARIABLES
    args,         \* keyword arguments of the pending QualityReport(...) call
    outcome,      \* "idle" | "pending" | "accepted" | "rejected"
    errors,       \* fields named by the ValidationError of that call
    constructed,  \* the QualityReport objects the call returned (0 or 1)
    qargs,        \* keyword arguments of the pending Question(...) call
    qoutcome,     \* "idle" | "pending" | "accepted" | "rejected"
    qerrors,      \* fields named by the ValidationError of that call
    qconstructed, \* the Question objects the call returned (0 or 1)
    cargs,        \* keyword arguments of the pending AethelgardConcept(...) call
    coutcome,     \* "idle" | "pending" | "accepted" | "rejected"
    cerrors,      \* fields named by the ValidationError of that call
    cconstructed, \* the AethelgardConcept objects the call returned (0 or 1)
    httpRequests, \* number of requests.post calls made by the clients
    calls,        \* the quality_checker.validate_* calls made, in order
    cache,        \* the idempotency cache: key -> stored results (0 or 1)
    ivia,         \* "helper": the client helper sends; "raw": raw JSON is posted
    iauth,        \* the Authorization header carries a valid API key
    ikey,         \* the Idempotency-Key header of the single-item request
    ipc,          \* position of the single-item request
    body,         \* JSON body of the single-item request in flight
    istatus,      \* HTTP status of the single-item request's answer (0: none yet)
    iraised,      \* what the quality checker raised for the single item ("none": nothing)
    bitems,       \* items of the batch request
    bstrict,      \* strict flag of the batch request
    bvia,         \* "helper" | "raw"
    bauth,        \* the Authorization header carries a valid API key
    bkey,         \* the Idempotency-Key header of the batch request
    bpc,          \* position of the batch request
    bstatus,      \* HTTP status of the batch request's answer (0: none yet)
    berror,       \* kind of the error the batch call ended in ("none": no error)
    idx,          \* 1-based position of the endpoint's loop over request.items
    reports,      \* the endpoint's reports list
    passed,       \* the endpoint's passed counter
    failed,       \* the endpoint's failed counter
    response,     \* the BatchValidationResponse the endpoint returned (0 or 1)
    surfaced,     \* 1-based indices of the items the error response names
    ep,           \* the endpoint the concurrent requests go to
    rq,           \* the concurrent requests: request -> its fields and position
    clock,        \* the server's clock, read for the timestamp of a response
    stores,       \* the store_idempotency_cache calls made, in order
    db,           \* validated_content_db of the backend: concept_id -> entries (0 or 1)
    sreq,         \* the backend request being handled
    sresp,        \* the backend's answer to it
    ccall,        \* the client function that is called
    cpc,          \* position of the client call
    celapsed      \* seconds the client call has waited for the answer

reportVars == <<args, outcome, errors, constructed>>

questionVars == <<qargs, qoutcome, qerrors, qconstructed>>

conceptVars == <<cargs, coutcome, cerrors, cconstructed>>

netVars == <<httpRequests, calls, cache>>

itemVars == <<ivia, iauth, ikey, ipc, body, istatus, iraised>>

batchVars == <<bitems, bstrict, bvia, bauth, bkey, bpc, bstatus, berror,
               idx, reports, passed, failed, response, surfaced>>

idemVars == <<ep, rq, clock, stores>>

storeVars == <<db, sreq, sresp>>

clientVars == <<ccall, cpc, celapsed>>

vars == <<reportVars, questionVars, conceptVars, netVars, itemVars, batchVars,
          idemVars, storeVars, clientVars>>

----------------------------------------------------------------------------
(* Bounds of the checked input space *)

\* overall_score is drawn from sum(criteria) - MaxSlack .. sum(criteria) + MaxSlack
MaxSlack == 2

\* a generic options list has 0 .. MaxOptions entries
MaxOptions == 7

\* a code_examples list has 0 .. MaxExamples entries
MaxExamples == 11

----------------------------------------------------------------------------
(* dict.get(key, default) on info.data *)
Get(data, key, default) ==
    IF key \in DOMAIN data THEN data[key] ELSE default

----------------------------------------------------------------------------
(* QualityReport *)

\* the ten criterion fields, in declaration order
CriterionNames ==
    << "groundedness_citation_score",
       "technical_correctness_score",
       "people_first_pedagogy_score",
       "psw_actionability_score",
       "mode_fidelity_score",
       "self_paced_scaffolding_score",
       "retrieval_quality_score",
       "clarity_score",
       "bloom_alignment_score",
       "people_first_language_score" >>

\* Field(..., le=...) of each criterion field
CriterionMax ==
    [ groundedness_citation_score  |-> 20,
      technical_correctness_score  |-> 15,
      people_first_pedagogy_score  |-> 15,
      psw_actionability_score      |-> 10,
      mode_fidelity_score          |-> 10,
      self_paced_scaffolding_score |-> 10,
      retrieval_quality_score      |-> 10,
      clarity_score                |-> 5,
      bloom_alignment_score        |-> 3,
      people_first_language_score  |-> 2 ]

CriterionSet == { CriterionNames[i] : i \in 1..Len(CriterionNames) }

\* declaration order of the modelled fields of QualityReport
ReportFieldOrder ==
    << "overall_score" >> \o CriterionNames \o << "gates", "telemetry", "passes_quality" >>

ReportFields == { ReportFieldOrder[i] : i \in 1..Len(ReportFieldOrder) }

\* Telemetry: coverage_score in [0.0, 1.0], citation_density >= 0.0
TelemetryValid(t) ==
    /\ t.coverage_score >= 0 /\ t.coverage_score <= 100
    /\ t.citation_density >= 0
    /\ t.exec_ok \in BOOLEAN

\* ReportConstraint with the le= bound of the criterion fields left out
ReportConstraint_no_le(a, f) ==
    CASE f = "overall_score"  -> a[f] >= 0 /\ a[f] <= 100
      [] f \in CriterionSet   -> a[f] >= 0
      [] f = "gates"          -> \A i \in 1..Len(a[f]) : a[f][i].passed \in BOOLEAN
      [] f = "telemetry"      -> TelemetryValid(a[f])
      [] f = "passes_quality" -> a[f] \in BOOLEAN

\* the Field(...) constraints of one field, before its field_validator
ReportConstraint(a, f) ==
    CASE f = "overall_score"  -> a[f] >= 0 /\ a[f] <= 100
      [] f \in CriterionSet   -> a[f] >= 0 /\ a[f] <= CriterionMax[f]
      [] f = "gates"          -> \A i \in 1..Len(a[f]) : a[f][i].passed \in BOOLEAN
      [] f = "telemetry"      -> TelemetryValid(a[f])
      [] f = "passes_quality" -> a[f] \in BOOLEAN

RECURSIVE SumGet(_, _, _)
\* sum(scores) over info.data.get(name, 0) for names[i..]
SumGet(data, names, i) ==
    IF i > Len(names) THEN 0
    ELSE Get(data, names[i], 0) + SumGet(data, names, i + 1)

\* validate_overall_score: TRUE iff it returns (it returns v unchanged),
\* FALSE iff it raises ValueError
validate_overall_score(v, data) ==
    LET total == SumGet(data, CriterionNames, 1)
    IN  v = total

PASS_THRESHOLD == 85

core_gates == {"coverage_score", "citation_density", "exec_ok", "scope_ok"}

\* all(gate.passed for gate in gates if gate.name in core_gates)
gates_pass(gates) ==
    \A i \in 1..Len(gates) : gates[i].name \in core_gates => gates[i].passed

\* expected_pass with "or" for "and"
expected_pass_or(data) ==
    LET overall_score == Get(data, "overall_score", 0)
        gates         == Get(data, "gates", <<>>)
        score_pass    == overall_score >= PASS_THRESHOLD
    IN  score_pass \/ gates_pass(gates)

expected_pass(data) ==
    LET overall_score == Get(data, "overall_score", 0)
        gates         == Get(data, "gates", <<>>)
        score_pass    == overall_score >= PASS_THRESHOLD
    IN  score_pass /\ gates_pass(gates)

\* validate_passes_quality that raises only when the verdict is understated
validate_passes_quality_one_sided(v, data) ==
    ~(expected_pass(data) /\ ~v)

\* validate_passes_quality: TRUE iff it returns (it returns v unchanged),
\* FALSE iff it raises ValueError
validate_passes_quality(v, data) ==
    v = expected_pass(data)

RECURSIVE ReportFieldOK(_, _)
\* info.data while the k-th field is validated: the fields declared before
\* it that validated
ReportInfoData(a, k) ==
    LET prior == { ReportFieldOrder[j] : j \in { i \in 1..(k - 1) : ReportFieldOK(a, i) } }
    IN  [ g \in prior |-> a[g] ]

\* the k-th field of the call validates: its Field(...) constraints first,
\* then its field_validator
ReportFieldOK(a, k) ==
    LET f == ReportFieldOrder[k]
    IN  /\ ReportConstraint(a, f)
        /\ f = "overall_score"  => validate_overall_score(a[f], ReportInfoData(a, k))
        /\ f = "passes_quality" => validate_passes_quality(a[f], ReportInfoData(a, k))

\* the fields the ValidationError of QualityReport(**a) names
ReportErrors(a) ==
    { ReportFieldOrder[k] : k \in { i \in 1..Len(ReportFieldOrder) : ~ReportFieldOK(a, i) } }

\* QualityReport(**a) returns a report
ReportAccepted(a) == ReportErrors(a) = {}

----------------------------------------------------------------------------
(* Inputs of QualityReport(...) *)

GateNames == << "coverage_score", "citation_density", "exec_ok", "scope_ok", "style_ok" >>

GateStatus(n, p) == [ name |-> n, passed |-> p ]

RECURSIVE GateList(_, _)
\* the gates list that carries, in order, each gate c marks present
GateList(c, i) ==
    IF i > Len(GateNames) THEN << >>
    ELSE (IF c[i] = "absent" THEN << >>
          ELSE << GateStatus(GateNames[i], c[i] = "passed") >>)
         \o GateList(c, i + 1)

GateLists ==
    { GateList(c, 1) : c \in [ 1..Len(GateNames) -> {"absent", "passed", "failed"} ] }

AllCorePassed ==
    << GateStatus("coverage_score", TRUE), GateStatus("citation_density", TRUE),
       GateStatus("exec_ok", TRUE), GateStatus("scope_ok", TRUE) >>

\* coverage_score measurements around the documented 0.65 threshold
CoverageValues == {64, 65}

\* a coverage_score above 1.0
BadCoverageValues == {101}

Telemetries ==
    [ coverage_score : CoverageValues, citation_density : {120}, exec_ok : BOOLEAN ]

BadTelemetries ==
    [ coverage_score : BadCoverageValues, citation_density : {120}, exec_ok : BOOLEAN ]

ZeroScores    == << 0, 0, 0, 0, 0, 0, 0, 0, 0, 0 >>
MaxScores     == << 20, 15, 15, 10, 10, 10, 10, 5, 3, 2 >>
ExampleScores == << 18, 14, 13, 9, 9, 9, 9, 4, 2, 1 >>
Scores85      == << 18, 14, 13, 9, 9, 9, 9, 4, 0, 0 >>
Scores84      == << 18, 14, 13, 9, 9, 9, 9, 3, 0, 0 >>
Scores90      == << 18, 14, 13, 9, 9, 9, 9, 4, 3, 2 >>

InBoundScores == { ZeroScores, MaxScores, ExampleScores, Scores85, Scores84, Scores90 }

\* one criterion below 0 or above its maximum
OutOfBoundScores ==
    { [ ZeroScores EXCEPT ![i] = -1 ] : i \in 1..10 }
    \cup { [ MaxScores EXCEPT ![i] = MaxScores[i] + 1 ] : i \in 1..10 }

RECURSIVE SeqSum(_, _)
SeqSum(s, i) == IF i > Len(s) THEN 0 ELSE s[i] + SeqSum(s, i + 1)

\* in-range overall_score values around the sum of the criteria, and 0
OverallValues(s) ==
    { o \in {0} \cup { SeqSum(s, 1) + d : d \in (0 - MaxSlack)..MaxSlack } :
        o >= 0 /\ o <= 100 }

\* overall_score values that include the out-of-range -1 and 101
EdgeOverallValues(s) == {-1, 0, SeqSum(s, 1), 101}

MkArgs(o, s, g, t, p) ==
    [ overall_score                |-> o,
      groundedness_citation_score  |-> s[1],
      technical_correctness_score  |-> s[2],
      people_first_pedagogy_score  |-> s[3],
      psw_actionability_score      |-> s[4],
      mode_fidelity_score          |-> s[5],
      self_paced_scaffolding_score |-> s[6],
      retrieval_quality_score      |-> s[7],
      clarity_score                |-> s[8],
      bloom_alignment_score        |-> s[9],
      people_first_language_score  |-> s[10],
      gates                        |-> g,
      telemetry                    |-> t,
      passes_quality               |-> p ]

\* calls whose fields all satisfy their Field(...) constraints
InBoundInput(a) ==
    \E s \in InBoundScores, g \in GateLists, t \in Telemetries, p \in BOOLEAN :
        \E o \in OverallValues(s) : a = MkArgs(o, s, g, t, p)

\* calls that may break a Field(...) constraint: a criterion, overall_score
\* or the telemetry coverage_score out of bounds
OutOfBoundInput(a) ==
    \E s \in InBoundScores \cup OutOfBoundScores, g \in {<< >>, AllCorePassed},
       t \in Telemetries \cup BadTelemetries, p \in BOOLEAN :
        \E o \in EdgeOverallValues(s) : a = MkArgs(o, s, g, t, p)

NoArgs == MkArgs(0, ZeroScores, << >>,
                 [ coverage_score |-> 0, citation_density |-> 0, exec_ok |-> FALSE ],
                 FALSE)

\* the object QualityReport(**a) returns: the validated fields and the
\* defaulted validator_version
ReportOf(a) == [ f \in ReportFields \cup {"validator_version"} |->
                   IF f = "validator_version" THEN "2.0" ELSE a[f] ]

----------------------------------------------------------------------------
(* Question *)

\* the values of the QuestionType enum
QuestionType ==
    {"multiple_choice", "true_false", "fill_blank", "code_output", "code_writing"}

\* declaration order of the modelled fields of Question
QuestionFieldOrder == << "question_text", "question_type", "options", "correct_answer" >>

\* The options argument is [kind |-> "omitted"] when the keyword is not
\* passed, [kind |-> "none"] for options=None and [kind |-> "list"] with the
\* list in items otherwise.  question_text is represented by its length.
OptOmitted == [ kind |-> "omitted", items |-> << >> ]
OptNone    == [ kind |-> "none", items |-> << >> ]
OptList(l) == [ kind |-> "list", items |-> l ]

\* the Field(...) and type constraints of one field, before its field_validator
QuestionConstraint(a, f) ==
    CASE f = "question_text"  -> a[f] >= 10 /\ a[f] <= 500
      [] f = "question_type"  -> a[f] \in QuestionType
      [] f = "options"        -> a[f].kind \in {"omitted", "none", "list"}
      [] f = "correct_answer" -> a[f] # ""

\* validate_options that tests the option-free types with "if v:" for
\* "if v is not None:", so that an empty list slips through
validate_options_truthy(v, data) ==
    LET question_type == Get(data, "question_type", "None")
        falsy         == v.kind = "none" \/ Len(v.items) = 0
    IN  /\ question_type = "multiple_choice" =>
              /\ ~(falsy \/ Len(v.items) < 2)
              /\ ~(Len(v.items) > 6)
        /\ question_type = "true_false" =>
              ~(v.kind = "none" \/ v.items # << "True", "False" >>)
        /\ question_type \in {"fill_blank", "code_output", "code_writing"} =>
              ~(~falsy)

\* validate_options: TRUE iff it returns (it returns v unchanged),
\* FALSE iff it raises ValueError
validate_options(v, data) ==
    LET question_type == Get(data, "question_type", "None")
        falsy         == v.kind = "none" \/ Len(v.items) = 0
    IN  /\ question_type = "multiple_choice" =>
              /\ ~(falsy \/ Len(v.items) < 2)
              /\ ~(Len(v.items) > 6)
        /\ question_type = "true_false" =>
              ~(v.kind = "none" \/ v.items # << "True", "False" >>)
        /\ question_type \in {"fill_blank", "code_output", "code_writing"} =>
              ~(v.kind # "none")

RECURSIVE QuestionFieldOK(_, _)
\* info.data while the k-th field is validated
QuestionInfoData(a, k) ==
    LET prior == { QuestionFieldOrder[j] : j \in { i \in 1..(k - 1) : QuestionFieldOK(a, i) } }
    IN  [ g \in prior |-> a[g] ]

\* the k-th field of the call validates; the options validator is skipped
\* when the field takes its default
QuestionFieldOK(a, k) ==
    LET f == QuestionFieldOrder[k]
    IN  /\ QuestionConstraint(a, f)
        /\ (f = "options" /\ a[f].kind # "omitted") =>
              validate_options(a[f], QuestionInfoData(a, k))

\* the fields the ValidationError of Question(**a) names
QuestionErrors(a) ==
    { QuestionFieldOrder[k] : k \in { i \in 1..Len(QuestionFieldOrder) : ~QuestionFieldOK(a, i) } }

\* the object Question(**a) returns: an omitted options takes the default None
QuestionOf(a) ==
    [ a EXCEPT !.options = IF @.kind = "omitted" THEN OptNone ELSE @ ]

----------------------------------------------------------------------------
(* Inputs of Question(...) *)

OptionLabels == << "A", "B", "C", "D", "E", "F", "G", "H", "I", "J" >>

\* generic option lists of 0 .. MaxOptions entries and the true/false shapes
OptionArgs ==
    { OptOmitted, OptNone }
    \cup { OptList(SubSeq(OptionLabels, 1, n)) : n \in 0..MaxOptions }
    \cup { OptList(<< "True", "False" >>), OptList(<< "False", "True" >>),
           OptList(<< "Yes", "No" >>), OptList(<< "True" >>) }

QuestionTypeArgs == QuestionType \cup {"essay"}

CorrectAnswerArgs == {"", "A", "B", "True", "No", "X"}

QuestionTextArgs == {9, 10, 500, 501}

NoQArgs ==
    [ question_text |-> 10, question_type |-> "fill_blank",
      options |-> OptOmitted, correct_answer |-> "X" ]

----------------------------------------------------------------------------
(* AethelgardConcept *)

\* the values of the Library enum
Library ==
    {"core-python", "numpy", "pandas", "matplotlib", "seaborn", "scikit-learn"}

\* the characters the pattern ^[a-z0-9-]+$ admits
IdChars ==
    { "a", "b", "c", "d", "e", "f", "g", "h", "i", "j", "k", "l", "m",
      "n", "o", "p", "q", "r", "s", "t", "u", "v", "w", "x", "y", "z",
      "0", "1", "2", "3", "4", "5", "6", "7", "8", "9", "-" }

\* pattern=r"^[a-z0-9-]+$" on an identifier given as its characters
MatchesIdPattern(id) ==
    Len(id) >= 1 /\ \A i \in 1..Len(id) : id[i] \in IdChars

\* declaration order of the modelled fields of AethelgardConcept
ConceptFieldOrder ==
    << "concept_id", "title", "problem", "system", "win", "code_examples", "libraries" >>

\* CodeExample: code has min_length=10 (a code example is represented by
\* the length of its code)
CodeExampleValid(code) == code >= 10

\* ConceptConstraint with the min_length of problem copied to system
ConceptConstraint_system_50(a, f) ==
    CASE f = "concept_id"    -> MatchesIdPattern(a[f])
      [] f = "title"         -> a[f] >= 5 /\ a[f] <= 100
      [] f = "problem"       -> a[f] >= 50 /\ a[f] <= 500
      [] f = "system"        -> a[f] >= 50 /\ a[f] <= 1000
      [] f = "win"           -> a[f] >= 50 /\ a[f] <= 500
      [] f = "code_examples" -> /\ Len(a[f]) >= 1 /\ Len(a[f]) <= 10
                                /\ \A i \in 1..Len(a[f]) : CodeExampleValid(a[f][i])
      [] f = "libraries"     -> \A i \in 1..Len(a[f]) : a[f][i] \in Library

\* The Field(...) and type constraints of one field.  title, problem, system
\* and win are represented by their lengths, concept_id by its characters.
ConceptConstraint(a, f) ==
    CASE f = "concept_id"    -> MatchesIdPattern(a[f])
      [] f = "title"         -> a[f] >= 5 /\ a[f] <= 100
      [] f = "problem"       -> a[f] >= 50 /\ a[f] <= 500
      [] f = "system"        -> a[f] >= 100 /\ a[f] <= 1000
      [] f = "win"           -> a[f] >= 50 /\ a[f] <= 500
      [] f = "code_examples" -> /\ Len(a[f]) >= 1 /\ Len(a[f]) <= 10
                                /\ \A i \in 1..Len(a[f]) : CodeExampleValid(a[f][i])
      [] f = "libraries"     -> \A i \in 1..Len(a[f]) : a[f][i] \in Library

\* validate_libraries: TRUE iff it returns (it returns v unchanged),
\* FALSE iff it raises ValueError
validate_libraries(v) ==
    IF Len(v) = 0 THEN TRUE
    ELSE LET approved == Library
             invalid  == { i \in 1..Len(v) : v[i] \notin approved }
         IN  invalid = {}

\* one field of the call validates: its constraints first, then its
\* field_validator
ConceptFieldOK(a, f) ==
    /\ ConceptConstraint(a, f)
    /\ f = "libraries" => validate_libraries(a[f])

\* the fields the ValidationError of AethelgardConcept(**a) names
ConceptErrors(a) ==
    { ConceptFieldOrder[k] :
        k \in { i \in 1..Len(ConceptFieldOrder) : ~ConceptFieldOK(a, ConceptFieldOrder[i]) } }

----------------------------------------------------------------------------
(* Inputs of AethelgardConcept(...) *)

ConceptIdArgs ==
    { << "p", "y", "-", "0", "1" >>, << >>, << "P", "y" >>, << "p", "_", "1" >>, << "p", " " >> }

TitleArgs == {4, 5, 100, 101}

ProblemArgs == {49, 50, 501}

SystemArgs == {99, 100, 1001}

WinArgs == {49, 50, 501}

\* lists of 0 .. MaxExamples examples of 10 characters, and lists with a
\* 9-character example
CodeExamplesArgs ==
    { [ i \in 1..n |-> 10 ] : n \in 0..MaxExamples } \cup { << 9 >>, << 10, 9 >> }

LibrariesArgs ==
    { << >>, << "core-python" >>, << "numpy", "pandas" >>,
      << "tensorflow" >>, << "numpy", "tensorflow" >> }

NoCArgs ==
    [ concept_id |-> << "p" >>, title |-> 5, problem |-> 50, system |-> 100,
      win |-> 50, code_examples |-> << 10 >>, libraries |-> << >> ]

----------------------------------------------------------------------------
(* Values of the variables of a part of the program that is not running *)

NoKey == "none"

Keys == {"k1"}

EmptyCache == [ k \in Keys |-> {} ]

IdleReport ==
    /\ args = NoArgs
    /\ outcome = "idle"
    /\ errors = {}
    /\ constructed = {}

IdleQuestion ==
    /\ qargs = NoQArgs
    /\ qoutcome = "idle"
    /\ qerrors = {}
    /\ qconstructed = {}

IdleConcept ==
    /\ cargs = NoCArgs
    /\ coutcome = "idle"
    /\ cerrors = {}
    /\ cconstructed = {}

IdleNet ==
    /\ httpRequests = 0
    /\ calls = << >>
    /\ cache = EmptyCache

IdleItem ==
    /\ ivia = "none"
    /\ iauth = FALSE
    /\ ikey = NoKey
    /\ ipc = "idle"
    /\ body = NoQArgs
    /\ istatus = 0
    /\ iraised = "none"

IdleIdem ==
    /\ ep = "none"
    /\ rq = << >>
    /\ clock = 0
    /\ stores = << >>

IdleStore ==
    /\ db = << >>
    /\ sreq = [ kind |-> "none" ]
    /\ sresp = [ status |-> 0, handler |-> "none", served |-> {} ]

IdleClient ==
    /\ ccall = "none"
    /\ cpc = "idle"
    /\ celapsed = 0

IdleBatch ==
    /\ bitems = << >>
    /\ bstrict = TRUE
    /\ bvia = "none"
    /\ bauth = FALSE
    /\ bkey = NoKey
    /\ bpc = "idle"
    /\ bstatus = 0
    /\ berror = "none"
    /\ idx = 0
    /\ reports = << >>
    /\ passed = 0
    /\ failed = 0
    /\ response = {}
    /\ surfaced = {}

----------------------------------------------------------------------------
(* Specification of QualityReport construction *)

Init ==
    /\ InBoundInput(args) \/ OutOfBoundInput(args)
    /\ outcome = "pending"
    /\ errors = {}
    /\ constructed = {}
    /\ qargs = NoQArgs
    /\ qoutcome = "idle"
    /\ qerrors = {}
    /\ qconstructed = {}
    /\ cargs = NoCArgs
    /\ coutcome = "idle"
    /\ cerrors = {}
    /\ cconstructed = {}
    /\ IdleNet
    /\ IdleItem
    /\ IdleBatch
    /\ IdleIdem
    /\ IdleStore
    /\ IdleClient

\* QualityReport(**args)
ConstructReport ==
    /\ outcome = "pending"
    /\ LET errs == ReportErrors(args)
       IN  /\ errors' = errs
           /\ outcome' = IF errs = {} THEN "accepted" ELSE "rejected"
           /\ constructed' = IF errs = {} THEN { ReportOf(args) } ELSE {}
    /\ UNCHANGED <<args, questionVars, conceptVars, netVars, itemVars, batchVars,
                   idemVars, storeVars, clientVars>>

Next == ConstructReport

Spec == Init /\ [][Next]_vars

----------------------------------------------------------------------------
(* Specification of Question construction *)

QuestionInit ==
    /\ qargs \in [ question_text : QuestionTextArgs, question_type : QuestionTypeArgs,
                   options : OptionArgs, correct_answer : CorrectAnswerArgs ]
    /\ qoutcome = "pending"
    /\ qerrors = {}
    /\ qconstructed = {}
    /\ args = NoArgs
    /\ outcome = "idle"
    /\ errors = {}
    /\ constructed = {}
    /\ cargs = NoCArgs
    /\ coutcome = "idle"
    /\ cerrors = {}
    /\ cconstructed = {}
    /\ IdleNet
    /\ IdleItem
    /\ IdleBatch
    /\ IdleIdem
    /\ IdleStore
    /\ IdleClient

\* Question(**qargs)
ConstructQuestion ==
    /\ qoutcome = "pending"
    /\ LET errs == QuestionErrors(qargs)
       IN  /\ qerrors' = errs
           /\ qoutcome' = IF errs = {} THEN "accepted" ELSE "rejected"
           /\ qconstructed' = IF errs = {} THEN { QuestionOf(qargs) } ELSE {}
    /\ UNCHANGED <<qargs, reportVars, conceptVars, netVars, itemVars, batchVars,
                   idemVars, storeVars, clientVars>>

QuestionNext == ConstructQuestion

QuestionSpec == QuestionInit /\ [][QuestionNext]_vars

----------------------------------------------------------------------------
(* Specification of AethelgardConcept construction *)

ConceptInit ==
    /\ cargs \in [ concept_id : ConceptIdArgs, title : TitleArgs, problem : ProblemArgs,
                   system : SystemArgs, win : WinArgs,
                   code_examples : CodeExamplesArgs, libraries : LibrariesArgs ]
    /\ coutcome = "pending"
    /\ cerrors = {}
    /\ cconstructed = {}
    /\ args = NoArgs
    /\ outcome = "idle"
    /\ errors = {}
    /\ constructed = {}
    /\ qargs = NoQArgs
    /\ qoutcome = "idle"
    /\ qerrors = {}
    /\ qconstructed = {}
    /\ IdleNet
    /\ IdleItem
    /\ IdleBatch
    /\ IdleIdem
    /\ IdleStore
    /\ IdleClient

\* AethelgardConcept(**cargs)
ConstructConcept ==
    /\ coutcome = "pending"
    /\ LET errs == ConceptErrors(cargs)
       IN  /\ cerrors' = errs
           /\ coutcome' = IF errs = {} THEN "accepted" ELSE "rejected"
           /\ cconstructed' = IF errs = {} THEN { cargs } ELSE {}
    /\ UNCHANGED <<cargs, reportVars, questionVars, netVars, itemVars, batchVars,
                   idemVars, storeVars, clientVars>>

ConceptNext == ConstructConcept

ConceptSpec == ConceptInit /\ [][ConceptNext]_vars

----------------------------------------------------------------------------
(* The idempotency cache and the quality checker the endpoints call *)

\* check_idempotency_cache(key): the results stored under the key (none: {})
check_idempotency_cache(c, key) == c[key]

\* a store that replaces what the key holds
store_idempotency_cache_overwrite(c, key, result) == [ c EXCEPT ![key] = {result} ]

\* store_idempotency_cache(key, result): the first result stored under a key stays
store_idempotency_cache(c, key, result) ==
    IF c[key] = {} THEN [ c EXCEPT ![key] = {result} ] ELSE c

\* what `await quality_checker.validate_*(item)` can do: return a report that
\* passes, return a report that fails, raise ValueError, raise anything else
AssessorOutcomes == {"pass", "fail", "ValueError", "Exception"}

----------------------------------------------------------------------------
(* Specification of the single-item validation of a Question:
   the client helper validate_question and the endpoint
   POST /api/v1/questions/validate *)

\* question.model_dump(): every field is written out, an unset options as null
model_dump(q) ==
    [ q EXCEPT !.options = IF q.options.kind = "omitted" THEN OptNone ELSE q.options ]

\* the record quality_checker.validate_question is called with
QuestionCall(q) == [ method |-> "validate_question", item |-> q ]

\* the success wrapper the endpoint answers with and stores
ItemResult(o) == [ status |-> "success", passes_quality |-> o = "pass" ]

ItemInit ==
    /\ qargs \in [ question_text : QuestionTextArgs, question_type : QuestionTypeArgs,
                   options : OptionArgs, correct_answer : CorrectAnswerArgs ]
    /\ qerrors = {}
    /\ qconstructed = {}
    /\ \/ ivia = "helper" /\ qoutcome = "pending" /\ ikey \in Keys
       \/ ivia = "raw" /\ qoutcome = "idle" /\ ikey \in Keys \cup {NoKey}
    /\ iauth \in BOOLEAN
    /\ ipc = "client"
    /\ body = NoQArgs
    /\ istatus = 0
    /\ iraised = "none"
    /\ IdleReport
    /\ IdleConcept
    /\ IdleNet
    /\ IdleBatch
    /\ IdleIdem
    /\ IdleStore
    /\ IdleClient

\* validate_question(question, idempotency_key): requests.post of the dump
ClientValidateQuestion ==
    /\ ivia = "helper"
    /\ ipc = "client"
    /\ \E q \in qconstructed :
          body' = model_dump(q)
    /\ httpRequests' = httpRequests + 1
    /\ ipc' = "sent"
    /\ UNCHANGED <<calls, cache, ivia, iauth, ikey, istatus, iraised,
                   reportVars, questionVars, conceptVars, batchVars,
                   idemVars, storeVars, clientVars>>

\* a caller that posts the JSON itself
RawQuestionRequest ==
    /\ ivia = "raw"
    /\ ipc = "client"
    /\ body' = qargs
    /\ httpRequests' = httpRequests + 1
    /\ ipc' = "sent"
    /\ UNCHANGED <<calls, cache, ivia, iauth, ikey, istatus, iraised,
                   reportVars, questionVars, conceptVars, batchVars,
                   idemVars, storeVars, clientVars>>

\* `question: Question` does not parse: the handler body never runs
QuestionEndpointUnprocessable ==
    /\ ipc = "sent"
    /\ QuestionErrors(body) # {}
    /\ istatus' = 422
    /\ ipc' = "done"
    /\ UNCHANGED <<netVars, ivia, iauth, ikey, body, iraised,
                   reportVars, questionVars, conceptVars, batchVars,
                   idemVars, storeVars, clientVars>>

\* the API key check fails
QuestionEndpointUnauthorized ==
    /\ ipc = "sent"
    /\ QuestionErrors(body) = {}
    /\ ~iauth
    /\ istatus' = 401
    /\ ipc' = "done"
    /\ UNCHANGED <<netVars, ivia, iauth, ikey, body, iraised,
                   reportVars, questionVars, conceptVars, batchVars,
                   idemVars, storeVars, clientVars>>

\* create_error_response(error, code, details): it returns
\* ErrorResponse(...).model_dump(), a plain dict
create_error_response(error, code) ==
    [ type |-> "dict", status |-> "error", error |-> error, code |-> code ]

\* x.model_dump() exists on models; on a dict it raises AttributeError
HasModelDump(x) == x.type = "model"

\* the status the except clause ends in: the HTTPException it means to raise,
\* or the failure of building its detail
ExceptClauseStatus(error) ==
    IF HasModelDump(create_error_response(error, 400)) THEN 400 ELSE 500

\* the rest of the handler: cache check, quality checker call, answer
QuestionEndpointValidate ==
    /\ ipc = "sent"
    /\ QuestionErrors(body) = {}
    /\ iauth
    /\ IF ikey # NoKey /\ check_idempotency_cache(cache, ikey) # {}
       THEN /\ istatus' = 200
            /\ UNCHANGED <<calls, cache, iraised>>
       ELSE /\ calls' = Append(calls, QuestionCall(QuestionOf(body)))
            /\ \E o \in AssessorOutcomes :
                  CASE o \in {"pass", "fail"} ->
                         /\ istatus' = 200
                         /\ iraised' = "none"
                         /\ cache' = IF ikey # NoKey
                                     THEN store_idempotency_cache(cache, ikey, ItemResult(o))
                                     ELSE cache
                    \* except ValueError as e: raise HTTPException(400, detail=...)
                    [] o = "ValueError" ->
                         /\ istatus' = ExceptClauseStatus("Invalid question format")
                         /\ iraised' = o
                         /\ cache' = cache
                    \* any other exception leaves the handler
                    [] OTHER ->
                         /\ istatus' = 500
                         /\ iraised' = o
                         /\ cache' = cache
    /\ ipc' = "done"
    /\ UNCHANGED <<httpRequests, ivia, iauth, ikey, body,
                   reportVars, questionVars, conceptVars, batchVars,
                   idemVars, storeVars, clientVars>>

\* ConstructQuestion: the caller builds the Question the helper is called with
ItemNext ==
    \/ ConstructQuestion
    \/ ClientValidateQuestion
    \/ RawQuestionRequest
    \/ QuestionEndpointUnprocessable
    \/ QuestionEndpointUnauthorized
    \/ QuestionEndpointValidate

ItemSpec == ItemInit /\ [][ItemNext]_vars

----------------------------------------------------------------------------
(* Specification of batch validation: the client helper batch_validate and
   the endpoint POST /api/v1/content/batch-validate *)

\* BatchValidationRequest.items: max_length
MaxBatchItems == 100

\* largest batch whose items are drawn in every combination
MaxSmallBatch == 3

\* the items constraint without its max_length
BatchItemsConstraint_no_max(n) == n >= 1

\* BatchValidationRequest.items: Field(..., min_length=1, max_length=100)
BatchItemsConstraint(n) == n >= 1 /\ n <= MaxBatchItems

ItemKinds == {"concept", "question"}

\* an item of a batch: its kind, whether its JSON parses as
\* AethelgardConcept | Question, and what the quality checker does with it
ItemChoices ==
    { [ kind |-> k, valid |-> TRUE, assessment |-> a ] :
          k \in ItemKinds, a \in AssessorOutcomes \ {"ValueError"} }
    \cup { [ kind |-> k, valid |-> FALSE, assessment |-> "none" ] : k \in ItemKinds }

BatchItem(c, i) ==
    [ id |-> i, kind |-> c.kind, valid |-> c.valid, assessment |-> c.assessment ]

UniformBatch(n) ==
    [ i \in 1..n |-> [ id |-> i, kind |-> "concept", valid |-> TRUE, assessment |-> "pass" ] ]

\* 1-based positions of the items that do not parse
InvalidItems(items) == { i \in 1..Len(items) : ~items[i].valid }

\* the error of BatchValidationRequest(items=items) for model instances:
\* instances are taken as they are, only the length is checked
BatchConstructError(items) ==
    IF BatchItemsConstraint(Len(items)) THEN "none"
    ELSE IF Len(items) < 1 THEN "too_short" ELSE "too_long"

\* the error of parsing the request body as BatchValidationRequest
BatchParseError(items) ==
    IF ~BatchItemsConstraint(Len(items))
    THEN IF Len(items) < 1 THEN "too_short" ELSE "too_long"
    ELSE IF InvalidItems(items) # {} THEN "item_errors" ELSE "none"

\* the quality checker method the loop calls for an item
BatchCall(item) ==
    [ method |-> IF item.kind = "concept" THEN "validate_content" ELSE "validate_question",
      item |-> item.id ]

\* the report the quality checker returns for an item
ReportFor(item) == [ item_id |-> item.id, passes_quality |-> item.assessment = "pass" ]

\* a loop that puts each report in front of the list
AppendReport_front(rs, r) == << r >> \o rs

\* reports.append(report)
AppendReport(rs, r) == Append(rs, r)

\* the counting without its else branch
Tally_no_else(p, f, r) == IF r.passes_quality THEN << p + 1, f >> ELSE << p, f >>

\* if report.passes_quality: passed += 1 else: failed += 1
Tally(p, f, r) == IF r.passes_quality THEN << p + 1, f >> ELSE << p, f + 1 >>

\* BatchValidationResponse(total_items=len(request.items), passed, failed, reports)
BatchValidationResponse(items, p, f, rs) ==
    [ total_items |-> Len(items), passed |-> p, failed |-> f, reports |-> rs ]

BatchInit ==
    /\ \/ \E n \in 0..MaxSmallBatch : \E c \in [ 1..n -> ItemChoices ] :
             bitems = [ i \in 1..n |-> BatchItem(c[i], i) ]
       \/ \E n \in {MaxBatchItems, MaxBatchItems + 1} : bitems = UniformBatch(n)
    \* the helper is handed model instances and leaves strict at its default;
    \* a concept instance always dumps to JSON that parses
    /\ \/ /\ bvia = "helper"
          /\ bstrict = TRUE
          /\ bkey \in Keys
          /\ \A i \in 1..Len(bitems) : bitems[i].kind = "concept" => bitems[i].valid
       \/ /\ bvia = "raw"
          /\ bstrict \in BOOLEAN
          /\ bkey \in Keys \cup {NoKey}
    /\ bauth \in BOOLEAN
    /\ bpc = "client"
    /\ bstatus = 0
    /\ berror = "none"
    /\ idx = 0
    /\ reports = << >>
    /\ passed = 0
    /\ failed = 0
    /\ response = {}
    /\ surfaced = {}
    /\ IdleReport
    /\ IdleQuestion
    /\ IdleConcept
    /\ IdleNet
    /\ IdleItem
    /\ IdleIdem
    /\ IdleStore
    /\ IdleClient

\* batch_validate(items, idempotency_key): build the request, post its dump
ClientBatchValidate ==
    /\ bvia = "helper"
    /\ bpc = "client"
    /\ LET err == BatchConstructError(bitems)
       IN  IF err # "none"
           THEN /\ berror' = err
                /\ bpc' = "done"
                /\ UNCHANGED httpRequests
           ELSE /\ httpRequests' = httpRequests + 1
                /\ bpc' = "sent"
                /\ UNCHANGED berror
    /\ UNCHANGED <<calls, cache, bitems, bstrict, bvia, bauth, bkey, bstatus,
                   idx, reports, passed, failed, response, surfaced,
                   reportVars, questionVars, conceptVars, itemVars,
                   idemVars, storeVars, clientVars>>

\* a caller that posts the JSON itself
RawBatchRequest ==
    /\ bvia = "raw"
    /\ bpc = "client"
    /\ httpRequests' = httpRequests + 1
    /\ bpc' = "sent"
    /\ UNCHANGED <<calls, cache, bitems, bstrict, bvia, bauth, bkey, bstatus, berror,
                   idx, reports, passed, failed, response, surfaced,
                   reportVars, questionVars, conceptVars, itemVars,
                   idemVars, storeVars, clientVars>>

\* `request: BatchValidationRequest` does not parse: the handler body never
\* runs, and the answer lists the errors of every item that does not parse
BatchEndpointUnprocessable ==
    /\ bpc = "sent"
    /\ BatchParseError(bitems) # "none"
    /\ berror' = BatchParseError(bitems)
    /\ surfaced' = InvalidItems(bitems)
    /\ bstatus' = 422
    /\ bpc' = "done"
    /\ UNCHANGED <<netVars, bitems, bstrict, bvia, bauth, bkey,
                   idx, reports, passed, failed, response,
                   reportVars, questionVars, conceptVars, itemVars,
                   idemVars, storeVars, clientVars>>

\* the API key check fails
BatchEndpointUnauthorized ==
    /\ bpc = "sent"
    /\ BatchParseError(bitems) = "none"
    /\ ~bauth
    /\ berror' = "unauthorized"
    /\ bstatus' = 401
    /\ bpc' = "done"
    /\ UNCHANGED <<netVars, bitems, bstrict, bvia, bauth, bkey,
                   idx, reports, passed, failed, response, surfaced,
                   reportVars, questionVars, conceptVars, itemVars,
                   idemVars, storeVars, clientVars>>

\* the cache check, then reports = [], passed = 0, failed = 0
BatchEndpointEnter ==
    /\ bpc = "sent"
    /\ BatchParseError(bitems) = "none"
    /\ bauth
    /\ IF bkey # NoKey /\ check_idempotency_cache(cache, bkey) # {}
       THEN /\ response' = check_idempotency_cache(cache, bkey)
            /\ bstatus' = 200
            /\ bpc' = "done"
            /\ UNCHANGED <<idx, reports, passed, failed>>
       ELSE /\ reports' = << >>
            /\ passed' = 0
            /\ failed' = 0
            /\ idx' = 1
            /\ bpc' = "loop"
            /\ UNCHANGED <<response, bstatus>>
    /\ UNCHANGED <<netVars, bitems, bstrict, bvia, bauth, bkey, berror, surfaced,
                   reportVars, questionVars, conceptVars, itemVars,
                   idemVars, storeVars, clientVars>>

\* one pass of `for item in request.items`; an exception of the quality
\* checker is not caught and ends the handler
BatchLoopStep ==
    /\ bpc = "loop"
    /\ idx <= Len(bitems)
    /\ LET item == bitems[idx]
       IN  /\ calls' = Append(calls, BatchCall(item))
           /\ IF item.assessment \in {"pass", "fail"}
              THEN /\ reports' = AppendReport(reports, ReportFor(item))
                   /\ passed' = Tally(passed, failed, ReportFor(item))[1]
                   /\ failed' = Tally(passed, failed, ReportFor(item))[2]
                   /\ idx' = idx + 1
                   /\ UNCHANGED <<bpc, bstatus, berror, surfaced>>
              ELSE /\ berror' = "assessor_exception"
                   /\ surfaced' = {idx}
                   /\ bstatus' = 500
                   /\ bpc' = "done"
                   /\ UNCHANGED <<reports, passed, failed, idx>>
    /\ UNCHANGED <<httpRequests, cache, bitems, bstrict, bvia, bauth, bkey, response,
                   reportVars, questionVars, conceptVars, itemVars,
                   idemVars, storeVars, clientVars>>

\* after the loop: build the response, store it under the key, return it
BatchEndpointRespond ==
    /\ bpc = "loop"
    /\ idx > Len(bitems)
    /\ LET result == BatchValidationResponse(bitems, passed, failed, reports)
       IN  /\ response' = {result}
           /\ cache' = IF bkey # NoKey
                       THEN store_idempotency_cache(cache, bkey, result)
                       ELSE cache
    /\ bstatus' = 200
    /\ bpc' = "done"
    /\ UNCHANGED <<httpRequests, calls, bitems, bstrict, bvia, bauth, bkey, berror,
                   idx, reports, passed, failed, surfaced,
                   reportVars, questionVars, conceptVars, itemVars,
                   idemVars, storeVars, clientVars>>

BatchNext ==
    \/ ClientBatchValidate
    \/ RawBatchRequest
    \/ BatchEndpointUnprocessable
    \/ BatchEndpointUnauthorized
    \/ BatchEndpointEnter
    \/ BatchLoopStep
    \/ BatchEndpointRespond

BatchSpec == BatchInit /\ [][BatchNext]_vars

----------------------------------------------------------------------------
(* Specification of requests that share the idempotency cache: several
   requests to one of the validate endpoints, handled by one event loop.
   A handler runs without interruption from one await to the next; every
   request of a run falls within one retention window of the cache. *)

\* number of requests of a run
MaxRequests == 2

Requests == 1..MaxRequests

Endpoints == {"batch", "content", "question"}

\* the item ids a request body holds: one item, or the items of a batch
Payloads(e) ==
    IF e = "batch" THEN { << "a" >>, << "a", "b" >> } ELSE { << "a" >>, << "b" >> }

\* the cache check that never finds anything
CacheHit_never(c, key) == FALSE

\* if idempotency_key: cached_result = check_idempotency_cache(idempotency_key);
\* if cached_result: return cached_result
CacheHit(c, key) == key # NoKey /\ check_idempotency_cache(c, key) # {}

\* the store call placed where it runs whatever the quality checker did
StoreReached_finally(o) == TRUE

\* the store call stands in the try block, after the quality checker returned
StoreReached(o) == o \in {"pass", "fail"}

\* report.model_dump() of the report the quality checker returns for an item
ReportData(item, o) == [ item_id |-> item, passes_quality |-> o = "pass" ]

\* create_success_response(message, data): SuccessResponse(...).model_dump()
create_success_response(data, now) ==
    [ type |-> "dict", status |-> "success", data |-> data, timestamp |-> now ]

\* the quality checker method an endpoint calls
CheckerMethod(e) == IF e = "question" THEN "validate_question" ELSE "validate_content"

NewRequest(key, payload, auth) ==
    [ key |-> key, payload |-> payload, auth |-> auth, pc |-> "new",
      seen |-> {}, idx |-> 0, reports |-> << >>, passed |-> 0, failed |-> 0,
      result |-> {}, status |-> 0, raised |-> "none" ]

IdemInit ==
    /\ ep \in Endpoints
    /\ \E k \in [ Requests -> Keys \cup {NoKey} ] :
       \E p \in [ Requests -> Payloads(ep) ] :
       \E a \in [ Requests -> BOOLEAN ] :
          rq = [ r \in Requests |-> NewRequest(k[r], p[r], a[r]) ]
    /\ clock = 0
    /\ stores = << >>
    /\ httpRequests = 0
    /\ calls = << >>
    /\ cache = EmptyCache
    /\ IdleReport
    /\ IdleQuestion
    /\ IdleConcept
    /\ IdleItem
    /\ IdleBatch
    /\ IdleStore
    /\ IdleClient

IdemFrame ==
    UNCHANGED <<ep, httpRequests, reportVars, questionVars, conceptVars,
                itemVars, batchVars, storeVars, clientVars>>

\* the API key check fails
IdemUnauthorized(r) ==
    /\ rq[r].pc = "new"
    /\ ~rq[r].auth
    /\ rq' = [ rq EXCEPT ![r].pc = "done", ![r].status = 401 ]
    /\ UNCHANGED <<calls, cache, clock, stores>>
    /\ IdemFrame

\* the handler up to its first await: key check, cache check
IdemEnter(r) ==
    /\ rq[r].pc = "new"
    /\ rq[r].auth
    /\ LET key  == rq[r].key
           seen == IF key = NoKey THEN {} ELSE check_idempotency_cache(cache, key)
       IN  IF CacheHit(cache, key)
           THEN rq' = [ rq EXCEPT ![r].pc = "done", ![r].seen = seen, ![r].status = 200,
                                  ![r].result = check_idempotency_cache(cache, key) ]
           ELSE rq' = [ rq EXCEPT ![r].pc = "assessing", ![r].seen = seen, ![r].idx = 1 ]
    /\ UNCHANGED <<calls, cache, clock, stores>>
    /\ IdemFrame

\* a single-item endpoint from `await quality_checker.validate_*` to its end
IdemAssessItem(r) ==
    /\ ep \in {"content", "question"}
    /\ rq[r].pc = "assessing"
    /\ LET item == rq[r].payload[1]
           key  == rq[r].key
       IN  /\ calls' = Append(calls, [ method |-> CheckerMethod(ep), item |-> item, by |-> r ])
           /\ \E o \in AssessorOutcomes :
                 LET ok     == o \in {"pass", "fail"}
                     answer == IF ok
                               THEN create_success_response(ReportData(item, o), clock)
                               ELSE create_error_response("Invalid format", 400)
                     status == CASE ok -> 200
                                 [] o = "ValueError" -> ExceptClauseStatus("Invalid format")
                                 [] OTHER -> 500
                 IN  /\ rq' = [ rq EXCEPT ![r].pc = "done", ![r].status = status,
                                          ![r].result = IF ok THEN {answer} ELSE {},
                                          ![r].raised = IF ok THEN "none" ELSE o ]
                     /\ clock' = clock + 1
                     /\ IF StoreReached(o) /\ key # NoKey
                        THEN /\ cache' = store_idempotency_cache(cache, key, answer)
                             /\ stores' = Append(stores, [ key |-> key, result |-> answer,
                                                           payload |-> rq[r].payload, by |-> r ])
                        ELSE UNCHANGED <<cache, stores>>
    /\ IdemFrame

\* the batch endpoint from one `await quality_checker.validate_*` to the
\* next, or to its end after the last item
IdemAssessBatchItem(r) ==
    /\ ep = "batch"
    /\ rq[r].pc = "assessing"
    /\ LET q    == rq[r]
           item == q.payload[q.idx]
           key  == q.key
       IN  /\ calls' = Append(calls, [ method |-> CheckerMethod(ep), item |-> item, by |-> r ])
           /\ \E o \in AssessorOutcomes :
                 LET rs == AppendReport(q.reports, ReportData(item, o))
                     t  == Tally(q.passed, q.failed, ReportData(item, o))
                     answer == create_success_response(
                                   BatchValidationResponse(q.payload, t[1], t[2], rs), clock)
                 IN  CASE o \notin {"pass", "fail"} ->
                            /\ rq' = [ rq EXCEPT ![r].pc = "done", ![r].status = 500,
                                                 ![r].raised = o ]
                            /\ UNCHANGED <<cache, stores, clock>>
                       [] o \in {"pass", "fail"} /\ q.idx < Len(q.payload) ->
                            /\ rq' = [ rq EXCEPT ![r].reports = rs, ![r].passed = t[1],
                                                 ![r].failed = t[2], ![r].idx = q.idx + 1 ]
                            /\ UNCHANGED <<cache, stores, clock>>
                       [] OTHER ->
                            /\ rq' = [ rq EXCEPT ![r].reports = rs, ![r].passed = t[1],
                                                 ![r].failed = t[2], ![r].pc = "done",
                                                 ![r].status = 200, ![r].result = {answer} ]
                            /\ clock' = clock + 1
                            /\ IF key # NoKey
                               THEN /\ cache' = store_idempotency_cache(cache, key, answer)
                                    /\ stores' = Append(stores,
                                           [ key |-> key, result |-> answer,
                                             payload |-> q.payload, by |-> r ])
                               ELSE UNCHANGED <<cache, stores>>
    /\ IdemFrame

IdemNext ==
    \/ \E r \in Requests : IdemUnauthorized(r)
    \/ \E r \in Requests : IdemEnter(r)
    \/ \E r \in Requests : IdemAssessItem(r)
    \/ \E r \in Requests : IdemAssessBatchItem(r)

IdemSpec == IdemInit /\ [][IdemNext]_vars

----------------------------------------------------------------------------
(* Specification of the life of a QualityReport: its construction and the
   attribute assignments the class allows afterwards *)

\* QualityReport declares no model_config: it is not frozen, and an
\* assignment to a field is not validated
QualityReportFrozen == FALSE

\* the values assigned to a field of a constructed report
AssignedValues(f) ==
    CASE f = "passes_quality" -> BOOLEAN
      [] f = "overall_score"  -> {0, 84, 85, 100}
      [] OTHER                -> {0, 2}

AssignedFields == {"passes_quality", "overall_score", "people_first_language_score"}

\* report.<f> = v on the constructed report
SetAttr ==
    /\ outcome = "accepted"
    /\ \E f \in AssignedFields : \E v \in AssignedValues(f) :
          constructed' = IF QualityReportFrozen
                         THEN constructed
                         ELSE { [ r EXCEPT ![f] = v ] : r \in constructed }
    /\ UNCHANGED <<args, outcome, errors, questionVars, conceptVars, netVars, itemVars,
                   batchVars, idemVars, storeVars, clientVars>>

LifeNext ==
    \/ ConstructReport
    \/ SetAttr

LifeSpec == Init /\ [][LifeNext]_vars

----------------------------------------------------------------------------
(* Specification of the reference backend: store_content, get_content and
   list_content over validated_content_db.  A handler has no await, so a
   request is handled in one step. *)

\* concept ids of the requests; both match ^[a-z0-9-]+$
StoreIds == {"list", "python-variables-01"}

Difficulties == {"beginner", "advanced"}

EmptyDb == [ id \in StoreIds |-> {} ]

\* the routes of the backend app, in the order they are registered
Routes ==
    << [ method |-> "POST", path |-> "store",        handler |-> "store_content" ],
       [ method |-> "GET",  path |-> "{concept_id}", handler |-> "get_content" ],
       [ method |-> "GET",  path |-> "list",         handler |-> "list_content" ] >>

\* the route matches a request for /api/v1/content/<seg>
RouteMatches(route, method, seg) ==
    /\ route.method = method
    /\ route.path = "{concept_id}" \/ route.path = seg

\* the handler of the first route that matches
Dispatch(method, seg) ==
    LET hits == { i \in 1..Len(Routes) : RouteMatches(Routes[i], method, seg) }
    IN  IF hits = {} THEN "not_found"
        ELSE Routes[CHOOSE i \in hits : \A j \in hits : i <= j].handler

\* a store_content that checks nothing
store_content_rejects_never(report) == FALSE

\* store_content raises HTTPException(400, ...) for the report
store_content_rejects(report) ==
    \/ ~report.passes_quality
    \/ report.overall_score < 85

\* min_citation_density: float = None; the absent filter, as a number
NoDensity == -1

\* the concepts list_content returns
list_content(d, difficulty, min_score, min_citation_density) ==
    { e.concept : e \in
        { e \in UNION { d[id] : id \in DOMAIN d } :
            /\ ~(difficulty # "none" /\ e.concept.difficulty # difficulty)
            /\ ~(e.quality_report.overall_score < min_score)
            /\ ~(/\ min_citation_density # NoDensity
                 /\ e.quality_report.telemetry.citation_density < min_citation_density) } }

\* the quality reports posted to store_content
StoreReportArgs ==
    { MkArgs(o, sc, g, [ coverage_score |-> 65, citation_density |-> 120, exec_ok |-> TRUE ], p) :
        o \in {0, 84, 85, 100}, sc \in {ZeroScores, Scores85, MaxScores},
        g \in {<< >>, AllCorePassed}, p \in BOOLEAN }

NoStoreRequest == [ kind |-> "none" ]

NoStoreResponse == [ status |-> 0, handler |-> "none", served |-> {} ]

StoreInit ==
    /\ db = EmptyDb
    /\ sreq = NoStoreRequest
    /\ sresp = NoStoreResponse
    /\ IdleReport
    /\ IdleQuestion
    /\ IdleConcept
    /\ IdleNet
    /\ IdleItem
    /\ IdleBatch
    /\ IdleIdem
    /\ IdleClient

StoreFrame ==
    UNCHANGED <<reportVars, questionVars, conceptVars, netVars, itemVars, batchVars,
                idemVars, clientVars>>

\* POST /api/v1/content/store: the body is parsed into concept and
\* quality_report, then store_content runs
StoreContentRequest ==
    /\ \E id \in StoreIds, dif \in Difficulties, a \in StoreReportArgs :
          LET concept == [ concept_id |-> id, difficulty |-> dif ]
              req     == [ kind |-> "store", concept |-> concept, report |-> a ]
          IN  /\ sreq' = req
              /\ IF ReportErrors(a) # {}
                 THEN /\ sresp' = [ status |-> 422, handler |-> "none", served |-> {} ]
                      /\ db' = db
                 ELSE IF store_content_rejects(ReportOf(a))
                 THEN /\ sresp' = [ status |-> 400, handler |-> "store_content", served |-> {} ]
                      /\ db' = db
                 ELSE /\ sresp' = [ status |-> 200, handler |-> "store_content", served |-> {} ]
                      /\ db' = [ db EXCEPT ![id] =
                                   { [ concept |-> concept, quality_report |-> ReportOf(a) ] } ]
    /\ StoreFrame

\* GET /api/v1/content/<seg>?difficulty=&min_score=&min_citation_density=
GetContentRequest ==
    /\ \E seg \in StoreIds, difficulty \in Difficulties \cup {"none"},
          min_score \in {0, 85}, min_citation_density \in {NoDensity, 100} :
          LET handler == Dispatch("GET", seg)
          IN  /\ sreq' = [ kind |-> "get", seg |-> seg, difficulty |-> difficulty,
                           min_score |-> min_score,
                           min_citation_density |-> min_citation_density ]
              /\ sresp' =
                   CASE handler = "get_content" ->
                          IF db[seg] = {}
                          THEN [ status |-> 404, handler |-> handler, served |-> {} ]
                          ELSE [ status |-> 200, handler |-> handler,
                                 served |-> { e.concept : e \in db[seg] } ]
                     [] handler = "list_content" ->
                          [ status |-> 200, handler |-> handler,
                            served |-> list_content(db, difficulty, min_score,
                                                    min_citation_density) ]
                     [] OTHER -> [ status |-> 404, handler |-> "none", served |-> {} ]
    /\ db' = db
    /\ StoreFrame

StoreNext ==
    \/ StoreContentRequest
    \/ GetContentRequest

StoreSpec == StoreInit /\ [][StoreNext]_vars

----------------------------------------------------------------------------
(* Specification of a client call: the function sends its request with
   requests.post / requests.get and waits for the answer; the server may
   answer at any time or never *)

ClientCalls ==
    { "validate_content", "validate_question", "batch_validate",
      "get_concept", "list_concepts", "search_concepts", "get_questions_for_concept",
      "get_random_question", "get_prerequisites", "get_next_concepts" }

\* timeout=10
ClientTimeout == 10

\* no timeout argument: requests waits without a limit
NoTimeout == -1

\* seconds of waiting the model follows a call for
MaxWait == 12

\* the timeout argument of the function's requests call
TimeoutOf(c) == IF c = "validate_content" THEN NoTimeout ELSE ClientTimeout

ClientInit ==
    /\ ccall \in ClientCalls
    /\ cpc = "calling"
    /\ celapsed = 0
    /\ IdleReport
    /\ IdleQuestion
    /\ IdleConcept
    /\ IdleNet
    /\ IdleItem
    /\ IdleBatch
    /\ IdleIdem
    /\ IdleStore

ClientFrame ==
    UNCHANGED <<ccall, reportVars, questionVars, conceptVars, netVars, itemVars,
                batchVars, idemVars, storeVars>>

\* requests.post(...) / requests.get(...): the request goes out
ClientSend ==
    /\ cpc = "calling"
    /\ cpc' = "waiting"
    /\ UNCHANGED celapsed
    /\ ClientFrame

\* the answer arrives: return response.json()
ClientReturn ==
    /\ cpc = "waiting"
    /\ cpc' = "returned"
    /\ UNCHANGED celapsed
    /\ ClientFrame

\* a second passes without an answer
ClientWait ==
    /\ cpc = "waiting"
    /\ celapsed < MaxWait
    /\ TimeoutOf(ccall) # NoTimeout => celapsed < TimeoutOf(ccall)
    /\ celapsed' = celapsed + 1
    /\ UNCHANGED cpc
    /\ ClientFrame

\* the timeout has passed: requests raises Timeout
ClientTimesOut ==
    /\ cpc = "waiting"
    /\ TimeoutOf(ccall) # NoTimeout
    /\ celapsed >= TimeoutOf(ccall)
    /\ cpc' = "raised"
    /\ UNCHANGED celapsed
    /\ ClientFrame

ClientNext ==
    \/ ClientSend
    \/ ClientReturn
    \/ ClientWait
    \/ ClientTimesOut

ClientSpec == ClientInit /\ [][ClientNext]_vars

----------------------------------------------------------------------------
(* Vocabulary of the properties *)

Done == {"accepted", "rejected"}

\* the fixed maxima of the rubric, in criterion order
RubricMax == << 20, 15, 15, 10, 10, 10, 10, 5, 3, 2 >>

CoreGateSet == {"coverage_score", "citation_density", "exec_ok", "scope_ok"}

\* the ten criterion scores of a call or of a report
CriteriaOf(r) == [ i \in 1..10 |-> r[CriterionNames[i]] ]

CriteriaSum(r) == SeqSum(CriteriaOf(r), 1)

CriteriaInBounds(r) ==
    \A i \in 1..10 : CriteriaOf(r)[i] >= 0 /\ CriteriaOf(r)[i] <= RubricMax[i]

\* the documented verdict: score >= 85 and every core gate of the list passed
Verdict(score, gates) ==
    /\ score >= 85
    /\ \A i \in 1..Len(gates) : gates[i].name \in CoreGateSet => gates[i].passed

HasGate(gates, n) == \E i \in 1..Len(gates) : gates[i].name = n

HasPassedGate(gates, n) == \E i \in 1..Len(gates) : gates[i].name = n /\ gates[i].passed

HasFailedGate(gates, n) == \E i \in 1..Len(gates) : gates[i].name = n /\ ~gates[i].passed

AllGatesPassed(gates) == \A i \in 1..Len(gates) : gates[i].passed

AllFourCorePassed(gates) ==
    /\ \A n \in CoreGateSet : HasPassedGate(gates, n)
    /\ \A n \in CoreGateSet : ~HasFailedGate(gates, n)

\* a call whose criteria are in bounds and sum to its overall_score, with a
\* valid telemetry record
ConsistentCall ==
    /\ outcome \in Done
    /\ CriteriaInBounds(args)
    /\ TelemetryValid(args.telemetry)
    /\ args.overall_score = CriteriaSum(args)

----------------------------------------------------------------------------
(* C1: every QualityReport that construction accepts has overall_score equal
   to the exact sum of its ten criterion scores, and a call whose
   overall_score differs from the sum of its in-bounds criteria is rejected. *)
C1_OverallEqualsSum ==
    /\ \A r \in constructed : r.overall_score = CriteriaSum(r)
    /\ (/\ outcome \in Done
        /\ CriteriaInBounds(args)
        /\ args.overall_score # CriteriaSum(args)) => outcome = "rejected"

(* C2: a call with in-bounds criteria, overall_score equal to their sum and
   passes_quality equal to the verdict formula is accepted (this covers the
   boundary tuple with 100, the all-zero tuple with 0 and the documented
   example with 88). *)
C2_ConsistentCallAccepted ==
    (/\ ConsistentCall
     /\ args.passes_quality = Verdict(args.overall_score, args.gates))
    => outcome = "accepted"

(* C3: every accepted QualityReport has passes_quality equal to
   (overall_score >= 85 and every core gate in the report passed), and a call
   whose passes_quality differs from that value is rejected, no report being
   returned. *)
C3_VerdictInvariant ==
    /\ \A r \in constructed : r.passes_quality = Verdict(r.overall_score, r.gates)
    /\ (/\ outcome \in Done
        /\ args.passes_quality # Verdict(args.overall_score, args.gates))
       => (outcome = "rejected" /\ constructed = {})

\* a call rejected for its passes_quality alone: the supplied verdict is TRUE
\* and the recomputed one is FALSE
C3_Witness ==
    /\ outcome = "rejected"
    /\ errors = {"passes_quality"}
    /\ args.passes_quality
    /\ ~Verdict(args.overall_score, args.gates)

(* C4: with criteria consistent with overall_score, a report with score 85
   and all four core gates passed is accepted exactly when passes_quality is
   TRUE, one with score 84 and all gates passed exactly when it is FALSE, and
   one with score 90 and a failed exec_ok gate exactly when it is FALSE. *)
C4_ThresholdCases ==
    ConsistentCall =>
        /\ (args.overall_score = 85 /\ AllFourCorePassed(args.gates))
              => (outcome = "accepted" <=> args.passes_quality)
        /\ (args.overall_score = 84 /\ AllGatesPassed(args.gates))
              => (outcome = "accepted" <=> ~args.passes_quality)
        /\ (args.overall_score = 90 /\ HasFailedGate(args.gates, "exec_ok"))
              => (outcome = "accepted" <=> ~args.passes_quality)

IsCoreGate(g) == g.name \in CoreGateSet

\* the gate lists that agree with gates on the core gates and differ in the
\* presence or the passed value of a gate with another name
NonCoreVariants(gates) ==
    LET core == SelectSeq(gates, IsCoreGate)
    IN  { core,
          core \o << GateStatus("style_ok", FALSE) >>,
          core \o << GateStatus("style_ok", TRUE) >>,
          << GateStatus("style_ok", FALSE) >> \o core }

(* C5: gates outside the core set do not affect the verdict: two calls that
   differ only in gates with other names are both accepted or both rejected,
   and a call with score 90, all core gates passed, a failing non-core gate
   and passes_quality TRUE is accepted. *)
C5_NonCoreGatesIgnored ==
    /\ outcome \in Done =>
          \A g \in NonCoreVariants(args.gates) :
              ReportAccepted([ args EXCEPT !.gates = g ]) = (outcome = "accepted")
    /\ (/\ ConsistentCall
        /\ args.overall_score = 90
        /\ AllFourCorePassed(args.gates)
        /\ HasFailedGate(args.gates, "style_ok")
        /\ args.passes_quality) => outcome = "accepted"

(* C6: every accepted QualityReport with passes_quality TRUE carries, for
   each of the four core gates, a gate of that name that passed; a call with
   overall_score >= 85 whose gates lack a core gate is rejected when it
   claims passes_quality TRUE. *)
C6_PassingReportHasCoreGates ==
    /\ \A r \in constructed :
          r.passes_quality => \A n \in CoreGateSet : HasPassedGate(r.gates, n)
    /\ (/\ outcome \in Done
        /\ args.overall_score >= 85
        /\ \E n \in CoreGateSet : ~HasGate(args.gates, n)
        /\ args.passes_quality) => outcome = "rejected"

\* an otherwise consistent call with score >= 85 and no gates that claims
\* passes_quality TRUE, and is rejected
C6_Witness ==
    /\ ConsistentCall
    /\ args.overall_score >= 85
    /\ args.gates = << >>
    /\ args.passes_quality
    /\ outcome = "rejected"

(* C7: in every accepted QualityReport each criterion score lies between 0
   and its fixed maximum and overall_score lies in 0..100; a call with a
   criterion negative or above its maximum is rejected. *)
C7_CriteriaWithinBounds ==
    /\ \A r \in constructed :
          /\ CriteriaInBounds(r)
          /\ r.overall_score >= 0 /\ r.overall_score <= 100
    /\ (outcome \in Done /\ ~CriteriaInBounds(args)) => outcome = "rejected"

\* a call rejected for one criterion above its maximum and nothing else
C7_Witness ==
    /\ outcome = "rejected"
    /\ \E i \in 1..10 :
          /\ errors = { CriterionNames[i] }
          /\ args[CriterionNames[i]] = RubricMax[i] + 1

(* C8: in every accepted QualityReport that carries a coverage_score gate,
   the gate passed iff the telemetry coverage_score is >= 0.65. *)
C8_CoverageGateMatchesTelemetry ==
    \A r \in constructed :
        \A i \in 1..Len(r.gates) :
            r.gates[i].name = "coverage_score" =>
                (r.gates[i].passed <=> r.telemetry.coverage_score >= 65)

(* C9: in every accepted QualityReport that carries an exec_ok gate, the
   gate's passed flag equals the telemetry exec_ok boolean, so a report whose
   telemetry says execution failed has no passed exec_ok gate and does not
   pass quality. *)
C9_ExecGateMatchesTelemetry ==
    \A r \in constructed :
        /\ \A i \in 1..Len(r.gates) :
              r.gates[i].name = "exec_ok" => r.gates[i].passed = r.telemetry.exec_ok
        /\ (HasGate(r.gates, "exec_ok") /\ ~r.telemetry.exec_ok) => ~r.passes_quality

(* C10: every accepted multiple_choice Question has an options list of 2 to
   6 entries, whether options was passed as a list, passed as None or
   omitted; a multiple_choice call with fewer than 2, more than 6 or no
   options is rejected. *)
C10_MultipleChoiceOptionCount ==
    /\ \A q \in qconstructed :
          q.question_type = "multiple_choice" =>
              /\ q.options.kind = "list"
              /\ Len(q.options.items) >= 2 /\ Len(q.options.items) <= 6
    /\ (/\ qoutcome \in Done
        /\ qargs.question_type = "multiple_choice"
        /\ \/ qargs.options.kind # "list"
           \/ Len(qargs.options.items) < 2
           \/ Len(qargs.options.items) > 6) => qoutcome = "rejected"

\* the items of an options value (None has none)
IsMember(x, items) == \E i \in 1..Len(items) : items[i] = x

\* a call whose fields other than options satisfy their own constraints
OtherQuestionFieldsValid ==
    /\ qargs.question_text >= 10 /\ qargs.question_text <= 500
    /\ qargs.correct_answer # ""

OptionFreeTypes == {"fill_blank", "code_output", "code_writing"}

(* C11: every accepted multiple_choice Question has a correct_answer that is
   one of its options, and a multiple_choice call whose correct_answer is not
   one of the provided options is rejected.  Stated for the calls that pass
   an options list, so that it does not rest on the omitted-options case. *)
C11_CorrectAnswerInOptions ==
    (/\ qoutcome \in Done
     /\ qargs.question_type = "multiple_choice"
     /\ qargs.options.kind = "list")
    => /\ \A q \in qconstructed : IsMember(q.correct_answer, q.options.items)
       /\ ~IsMember(qargs.correct_answer, qargs.options.items)
             => qoutcome = "rejected"

(* C12: a true_false Question (its other fields valid) is accepted if and
   only if its options are exactly the list ["True", "False"]; other lists,
   a single option and no options at all are rejected. *)
C12_TrueFalseOptions ==
    (/\ qoutcome \in Done
     /\ qargs.question_type = "true_false"
     /\ OtherQuestionFieldsValid)
    => (qoutcome = "accepted" <=> qargs.options = OptList(<< "True", "False" >>))

(* C13: a fill_blank, code_output or code_writing call that passes any
   options list, the empty list included, is rejected, and every accepted
   question of these types has options None. *)
C13_OptionFreeTypes ==
    /\ \A q \in qconstructed :
          q.question_type \in OptionFreeTypes => q.options = OptNone
    /\ (/\ qoutcome \in Done
        /\ qargs.question_type \in OptionFreeTypes
        /\ qargs.options.kind = "list") => qoutcome = "rejected"

\* a fill_blank call rejected for its empty options list alone
C13_Witness ==
    /\ qoutcome = "rejected"
    /\ qargs.question_type = "fill_blank"
    /\ qargs.options = OptList(<< >>)
    /\ qerrors = {"options"}

\* the approved libraries of the curriculum
ApprovedLibraries ==
    {"core-python", "numpy", "pandas", "matplotlib", "seaborn", "scikit-learn"}

LowerCase ==
    { "a", "b", "c", "d", "e", "f", "g", "h", "i", "j", "k", "l", "m",
      "n", "o", "p", "q", "r", "s", "t", "u", "v", "w", "x", "y", "z" }

Digits == { "0", "1", "2", "3", "4", "5", "6", "7", "8", "9" }

\* the structural requirements of a content item
WellFormedConcept(c) ==
    /\ c.title >= 5 /\ c.title <= 100
    /\ c.problem >= 50
    /\ c.system >= 100
    /\ c.win >= 50
    /\ Len(c.code_examples) >= 1 /\ Len(c.code_examples) <= 10
    /\ \A i \in 1..Len(c.code_examples) : c.code_examples[i] >= 10
    /\ Len(c.concept_id) >= 1
    /\ \A i \in 1..Len(c.concept_id) : c.concept_id[i] \in LowerCase \cup Digits \cup {"-"}
    /\ \A i \in 1..Len(c.libraries) : c.libraries[i] \in ApprovedLibraries

(* C14: every accepted AethelgardConcept has a title of 5 to 100 characters,
   a problem of at least 50, a system of at least 100 and a win of at least
   50 characters, 1 to 10 code examples of at least 10 characters each, a
   concept_id of lowercase letters, digits and hyphens, and libraries from
   the approved list; a call that violates one of these is rejected. *)
C14_ConceptWellFormed ==
    /\ \A c \in cconstructed : WellFormedConcept(c)
    /\ (coutcome \in Done /\ ~WellFormedConcept(cargs)) => coutcome = "rejected"

\* a call rejected for a system text of 99 characters and nothing else
C14_Witness ==
    /\ coutcome = "rejected"
    /\ cerrors = {"system"}
    /\ cargs.system = 99

\* the structural requirements of a question item
WellFormedQuestion(a) ==
    /\ a.question_text >= 10 /\ a.question_text <= 500
    /\ a.question_type \in {"multiple_choice", "true_false", "fill_blank",
                            "code_output", "code_writing"}
    /\ a.question_type = "multiple_choice" =>
          /\ a.options.kind = "list"
          /\ Len(a.options.items) >= 2 /\ Len(a.options.items) <= 6
          /\ IsMember(a.correct_answer, a.options.items)
    /\ a.question_type = "true_false" =>
          /\ a.options.kind = "list"
          /\ { a.options.items[i] : i \in 1..Len(a.options.items) } = {"True", "False"}
          /\ Len(a.options.items) = 2
    /\ a.question_type \in OptionFreeTypes => a.options.kind # "list"
    /\ a.correct_answer # ""

(* C15: a structurally malformed question never reaches the assessment
   step: the quality checker is never called for it, and the client helper
   sends no HTTP request for it. *)
C15_MalformedNeverAssessed ==
    ~WellFormedQuestion(qargs)
    => /\ calls = << >>
       /\ ivia = "helper" => httpRequests = 0

\* the batch call is over: an answer came back or the helper raised
BatchDone == bpc = "done"

\* the batch was turned away for its size
SizeRejected(kind) ==
    /\ berror = kind
    /\ response = {}
    /\ bvia = "helper" => bstatus = 0
    /\ bvia = "raw" => bstatus = 422

(* C16: a batch of 1 to 100 items is never turned away for its size; a batch
   of 0 items is rejected as too short and a batch of 101 or more as too
   long, and for both no quality checker call is ever made and the helper
   sends no request. *)
C16_BatchSizeBounds ==
    /\ (Len(bitems) >= 1 /\ Len(bitems) <= 100) =>
          /\ berror \notin {"too_short", "too_long"}
          /\ (BatchDone /\ bvia = "helper") => httpRequests = 1
    /\ (Len(bitems) = 0 \/ Len(bitems) >= 101) =>
          /\ calls = << >>
          /\ bvia = "helper" => httpRequests = 0
          /\ BatchDone => SizeRejected(IF Len(bitems) = 0 THEN "too_short" ELSE "too_long")

\* the helper turned a batch of 101 items away without sending it
C16_Witness ==
    /\ BatchDone
    /\ Len(bitems) = 101
    /\ bvia = "helper"
    /\ berror = "too_long"
    /\ httpRequests = 0
    /\ calls = << >>

(* C17: the i-th report is the report of the i-th item of the request, in
   the list the loop is building and in the response it returns. *)
C17_ReportOrder ==
    /\ \A i \in 1..Len(reports) :
          i <= Len(bitems) /\ reports[i] = ReportFor(bitems[i])
    /\ \A r \in response :
          /\ Len(r.reports) = Len(bitems)
          /\ \A i \in 1..Len(bitems) :
                /\ r.reports[i].item_id = bitems[i].id
                /\ r.reports[i].passes_quality = (bitems[i].assessment = "pass")

\* a response of three reports whose verdicts differ
C17_Witness ==
    \E r \in response :
       /\ Len(r.reports) = 3
       /\ r.reports[1].passes_quality
       /\ ~r.reports[2].passes_quality

\* the per-item error records of a response: BatchValidationResponse has no
\* field that holds any
ErrorRecords(r) == << >>

(* C18: every batch response has total_items = passed + failed + errored,
   with passed the number of passing reports, failed the number of failing
   reports, errored the number of error records, and total_items the number
   of items of the request. *)
C18_TotalsAddUp ==
    \A r \in response :
       /\ r.total_items = r.passed + r.failed + Len(ErrorRecords(r))
       /\ r.passed = Cardinality({ i \in 1..Len(r.reports) : r.reports[i].passes_quality })
       /\ r.failed = Cardinality({ i \in 1..Len(r.reports) : ~r.reports[i].passes_quality })
       /\ r.total_items = Len(bitems)

\* a response that counts a passing and a failing report
C18_Witness ==
    \E r \in response : r.passed >= 1 /\ r.failed >= 1

\* 1-based positions of the items with a per-item failure: the item is
\* malformed or its assessment raises
FailingItems == { i \in 1..Len(bitems) :
                     ~bitems[i].valid \/ bitems[i].assessment = "Exception" }

(* C19: a non-strict batch of 1 to 100 items always ends in a result that
   holds the report of every item without a failure and an error record
   for every item with one; no error is raised out of the batch call. *)
C19_NonStrictPartialResults ==
    (BatchDone /\ ~bstrict /\ bauth /\ Len(bitems) >= 1 /\ Len(bitems) <= 100)
    => /\ berror = "none"
       /\ \E r \in response :
             /\ \A i \in 1..Len(bitems) \ FailingItems :
                   \E j \in 1..Len(r.reports) : r.reports[j].item_id = bitems[i].id
             /\ Len(ErrorRecords(r)) = Cardinality(FailingItems)

(* C20: a strict batch with a per-item failure ends as a failed batch that
   emits no report and surfaces the error of exactly one item, an item that
   has a failure. *)
C20_StrictSoleError ==
    (BatchDone /\ bstrict /\ bauth /\ Len(bitems) >= 1 /\ Len(bitems) <= 100
               /\ FailingItems # {})
    => /\ response = {}
       /\ berror # "none"
       /\ surfaced \subseteq FailingItems
       /\ Cardinality(surfaced) = 1

(* C27: when the quality checker raises ValueError in a single-item validate
   endpoint, the endpoint answers 400 with the structured error wrapper; it
   never ends in an unhandled failure. *)
C27_ValueErrorAnswers400 ==
    (ipc = "done" /\ iraised = "ValueError") => istatus = 400

\* the quality checker calls a request made
CallsBy(r) == { i \in 1..Len(calls) : calls[i].by = r }

\* the store_idempotency_cache calls a request made
StoresBy(r) == { i \in 1..Len(stores) : stores[i].by = r }

\* the request carried a key under which a result was stored when it came in
FoundStored(r) == rq[r].auth /\ rq[r].pc # "new" /\ rq[r].seen # {}

(* C21: a request that carries a key under which a result is stored is
   answered with exactly that stored result and makes no quality checker
   call, whatever a fresh validation would return. *)
C21_ReplayReturnsStored ==
    \A r \in Requests :
       FoundStored(r) =>
          /\ rq[r].pc = "done"
          /\ rq[r].status = 200
          /\ rq[r].result = rq[r].seen
          /\ CallsBy(r) = {}

\* two requests with the same key and items, one after the other: the
\* second is answered with the result the first computed and stored
C21_Witness ==
    \E r1, r2 \in Requests :
       /\ r1 # r2
       /\ rq[r1].key = rq[r2].key
       /\ rq[r1].payload = rq[r2].payload
       /\ CallsBy(r1) # {} /\ StoresBy(r1) # {}
       /\ FoundStored(r2)
       /\ rq[r2].result = rq[r1].result

(* C22: two requests with the same idempotency key and the same items that
   both end with a result end with the same result. *)
C22_SameKeySameResult ==
    \A r1, r2 \in Requests :
       (/\ rq[r1].key # NoKey
        /\ rq[r1].key = rq[r2].key
        /\ rq[r1].payload = rq[r2].payload
        /\ rq[r1].status = 200
        /\ rq[r2].status = 200)
       => rq[r1].result = rq[r2].result

(* C23: once a result is stored under a key, the value stored under that key
   never changes. *)
C23_CacheWriteOnce ==
    [][ \A k \in Keys : cache[k] # {} => cache'[k] = cache[k] ]_vars

\* two store calls under one key with different results, the first one kept
C23_Witness ==
    \E i, j \in 1..Len(stores) :
       /\ i < j
       /\ stores[i].key = stores[j].key
       /\ stores[i].result # stores[j].result
       /\ cache[stores[i].key] = { stores[i].result }

(* C24: a request that reuses a key with a payload other than the one the
   result under that key was stored for is answered with a caller-input
   error, never with that stored result. *)
C24_KeyReuseRejected ==
    \A r \in Requests : \A i \in 1..Len(stores) :
       (/\ rq[r].pc = "done"
        /\ rq[r].auth
        /\ stores[i].key = rq[r].key
        /\ rq[r].seen = { stores[i].result }
        /\ stores[i].payload # rq[r].payload)
       => /\ rq[r].result # rq[r].seen
          /\ rq[r].status \in {400, 409, 422}

(* C28: a request that ends in an error makes no store call, a request
   answered from the cache makes none, a request that computes a result
   under a key makes exactly one, and the cache holds nothing but stored
   results; after a failed request the key is still free. *)
C28_OnlySuccessCached ==
    /\ \A r \in Requests :
          /\ rq[r].status \notin {0, 200} => StoresBy(r) = {}
          /\ FoundStored(r) => StoresBy(r) = {}
          /\ (rq[r].status = 200 /\ rq[r].key # NoKey /\ rq[r].seen = {})
                => Cardinality(StoresBy(r)) = 1
          /\ rq[r].key = NoKey => StoresBy(r) = {}
    /\ \A k \in Keys :
          /\ cache[k] # {} => \E i \in 1..Len(stores) :
                                  stores[i].key = k /\ cache[k] = { stores[i].result }
          /\ cache[k] = {} => \A i \in 1..Len(stores) : stores[i].key # k

\* a request failed under a key; a later request with that key found the
\* cache empty, was validated afresh and stored its result
C28_Witness ==
    \E r1, r2 \in Requests :
       /\ r1 # r2
       /\ rq[r1].key # NoKey /\ rq[r1].key = rq[r2].key
       /\ rq[r1].raised # "none"
       /\ rq[r2].status = 200 /\ rq[r2].seen = {}
       /\ CallsBy(r2) # {}
       /\ Cardinality(StoresBy(r2)) = 1
       /\ Len(stores) = 1

(* C26: a constructed QualityReport keeps the fields it was constructed
   with in every later state, and so keeps the verdict invariant that held
   at its construction. *)
C26_ReportImmutable ==
    outcome = "accepted" =>
       /\ constructed = { ReportOf(args) }
       /\ \A r \in constructed : r.passes_quality = Verdict(r.overall_score, r.gates)

\* the entries of the validated-content store
StoreEntries == UNION { db[id] : id \in DOMAIN db }

\* the report may be persisted
Storable(report) == report.passes_quality /\ report.overall_score >= 85

\* what C25 says of a state
StoreHoldsPassingOnly ==
    /\ \A e \in StoreEntries : Storable(e.quality_report)
    /\ (sreq.kind = "store" /\ ~Storable(sreq.report)) => sresp.status \in {400, 422}
    /\ \A c \in sresp.served :
          \E e \in StoreEntries : e.concept = c /\ Storable(e.quality_report)

(* C25: every entry of the validated-content store holds a report with
   passes_quality true and overall_score >= 85; a store call whose report
   fails either condition is rejected and leaves the store unchanged; every
   concept that is served comes from such an entry. *)
C25_StoreHoldsPassingOnly ==
    /\ []StoreHoldsPassingOnly
    /\ [][ (sreq'.kind = "store" /\ ~Storable(sreq'.report)) => db' = db ]_vars

\* a store call whose report parsed and was turned away by store_content
C25_Witness ==
    /\ sreq.kind = "store"
    /\ ReportErrors(sreq.report) = {}
    /\ ~Storable(sreq.report)
    /\ sresp.status = 400
    /\ sresp.handler = "store_content"
    /\ StoreEntries = {}

(* C30: a GET request for /api/v1/content/list is handled by list_content
   and answered with the filtered listing, never by get_content as the
   lookup of a concept. *)
C30_ListRouteReachesListContent ==
    (sreq.kind = "get" /\ sreq.seg = "list") =>
       /\ sresp.handler = "list_content"
       /\ sresp.status = 200
       /\ \A c \in sresp.served :
             \E e \in StoreEntries :
                /\ e.concept = c
                /\ e.quality_report.overall_score >= sreq.min_score

(* C29: every client call carries a bounded timeout: a call that waits for
   its answer has a timeout of at most 10 seconds and has not waited longer
   than that. *)
C29_EveryCallBounded ==
    cpc = "waiting" =>
       /\ TimeoutOf(ccall) # NoTimeout
       /\ TimeoutOf(ccall) <= 10
       /\ celapsed <= 10

====
